---- MODULE Spec2Model ----
(***************************************************************************)
(* CoapServer (packages/binding-coap/src/coap-server.ts): the thing        *)
(* registry, the request router handleRequest and the continuations it     *)
(* leaves behind (promise handlers, the polling timer of a property        *)
(* observation, the listener of an event observation, "finish" handlers).  *)
(*                                                                         *)
(* A request is the tuple node-coap hands to the handler: method, the      *)
(* pathname split at "/", the Content-Format header, the payload Buffer    *)
(* and the Observe header.  The sink res is modelled by the calls the      *)
(* server makes on it (write, end, _send) in the order it makes them.      *)
(***************************************************************************)
EXTENDS Integers, Sequences, FiniteSets, TLC

\* ------------------------------------------------------------------ bounds
MaxTicks == 2        \* timer ticks modelled per property observation
MaxOut == 3          \* calls on one sink before the runtime stops emitting events
MaxFinish == 1       \* "finish" signals delivered per stream
MaxErrors == 2       \* "error" events the server emits

\* ------------------------------------------------------- program constants
PROPERTY_DIR == "properties"
ACTION_DIR == "actions"
EVENT_DIR == "events"

\* JavaScript undefined, and the truthiness test of `!x` / `if (x)`.
Undefined == "undefined"
Truthy(v) == v \notin {Undefined, "", "false", "0"}

\* ---------------------------------------------- collaborators (interfaces)
\* ContentSerdes.DEFAULT
DEFAULT == "application/json"
\* ContentSerdes.TD
TD_TYPE == "application/td+json"

\* ContentSerdes.getMediaType: the content type without its parameters.
MediaTypeOf == [ct \in {"application/json", "text/plain;charset=utf-8", "application/x-unknown"} |->
                  CASE ct = "application/json" -> "application/json"
                    [] ct = "text/plain;charset=utf-8" -> "text/plain"
                    [] ct = "application/x-unknown" -> "application/x-unknown"]
getMediaType(ct) == MediaTypeOf[ct]

\* ContentSerdes.get().getSupportedMediaTypes()
getSupportedMediaTypes == {"application/json", "text/plain"}

\* Values the ThingRuntime hands out (property values, event data).
Values == {"true", "unserializable"}

\* ContentSerdes.get().valueToContent: throws for a value the codec cannot encode.
valueToContentThrows(value) == value = "unserializable"
valueToContent(value, contentType) == [type |-> contentType, body |-> <<"bytes", contentType, value>>]

\* ContentSerdes.get().contentToValue: throws for a payload it cannot decode.
contentToValueThrows(body) == body = "buf:garbage"
contentToValue(body) == IF body = "buf:true" THEN "true" ELSE Undefined

\* ------------------------------------------------------ the exposed things
\* ExposedThing objects handed to expose(); all carry the same affordances.
ThingObjs == {"thingA", "thingB", "thingC"}
TitleOf == [t \in ThingObjs |-> "Lamp"]
IdOf == [t \in ThingObjs |-> CASE t = "thingA" -> "urn:a" [] t = "thingB" -> "urn:b" [] OTHER -> "urn:c"]
\* thingId arguments of destroy(): the ids above and one no thing holds
ThingIds == {"urn:a", "urn:b", "urn:c", "urn:unknown"}

PropertyNames == {"on", "ro"}
ActionNames == {"toggle"}
EventNames == {"overheated", "changed"}

\* thing.properties[name]: the property object, or undefined.
HasProperty(name) == name \in PropertyNames
\* every name taken for a declared action
HasAction_Any(name) == TRUE

HasAction(name) == name \in ActionNames
HasEvent(name) == name \in EventNames
ReadOnlyOf == [p \in PropertyNames |-> p = "ro"]

\* ProtocolHelpers.getPropertyContentType / getEventContentType (forms of the TD)
getPropertyContentType == [p \in PropertyNames |-> IF p = "on" THEN "application/json" ELSE "text/plain"]
getEventContentType == [e \in EventNames |-> IF e = "changed" THEN "text/plain" ELSE "application/json"]

\* slugify(title, {lower: true})
slugify(title) == IF title = "Lamp" THEN "lamp" ELSE "thing"
\* Helpers.generateUniqueName: "_2" appended, or a numeric suffix incremented.
generateUniqueName(name) ==
    CASE name = "lamp" -> "lamp_2"
      [] name = "lamp_2" -> "lamp_3"
      [] OTHER -> "thing_2"

\* --------------------------------------------------------------- requests
\* The exchanges modelled: two subscriber streams, A and B.
Requests == {"A", "B"}
NoReq == [method |-> "none"]

Methods == {"GET", "PUT", "POST", "DELETE"}
\* req.headers["Content-Format"]
ContentFormats == {Undefined, "application/json", "text/plain;charset=utf-8", "application/x-unknown"}
\* req.payload is always a Buffer object (truthy also when empty)
Payloads == {"buf:empty", "buf:true", "buf:garbage"}
\* req.headers.Observe as an option: {} is undefined
Observes == {{}, {0}, {1}}
\* decodeURI(requestUri.pathname).split("/")
Paths == { <<"", "">>,
           <<"", "lamp">>,
           <<"", "lamp", "">>,
           <<"", "nothing">>,
           <<"", "", "lamp">>,
           <<"", "lamp", "properties">>,
           <<"", "lamp", "properties", "on">>,
           <<"", "lamp", "properties", "ro">>,
           <<"", "lamp", "properties", "nope">>,
           <<"", "lamp", "properties", "on", "extra">>,
           <<"", "lamp", "actions", "toggle">>,
           <<"", "lamp", "actions", "nope">>,
           <<"", "lamp", "events", "overheated">>,
           <<"", "lamp", "events", "changed">>,
           <<"", "lamp", "events", "nope">>,
           <<"", "lamp", "other", "on">> }

\* segments[i] with JavaScript's 0-based index; undefined past the end.
Seg(segments, i) == IF i + 1 <= Len(segments) THEN segments[i + 1] ELSE Undefined

VARIABLES
    listening,      \* server._sock is set (getPort() !== -1)
    things,         \* this.things: slug -> ExposedThing
    req,            \* per slot: the request the handler closed over, or NoReq
    code,           \* per slot: res.code
    out,            \* per slot: the calls made on res, in order
    ended,          \* per slot: res.end() has been called
    onFinish,       \* per slot: listeners registered with res.on("finish")
    finished,       \* per slot: "finish" signals delivered so far
    pending,        \* per slot: the promise the one-shot handler waits for
    timer,          \* per slot: oInterval is set and not cleared
    ticks,          \* per slot: timer callbacks run so far
    inflight,       \* per slot: ticks whose readProperty has not settled
    listeners,      \* ThingRuntime: (thing, event) -> slots whose listener is registered
    calls,          \* per slot: ThingRuntime capabilities called, in order
    lookups,        \* per slot: accesses to this.things made by the handler
    settled,        \* per slot: how the one-shot promise settled ("none": not yet)
    startPromise,   \* the promise start() returned: none, pending, resolved, rejected
    stopPromise,    \* the promise stop() returned
    errorListeners, \* listeners registered on server "error", in order
    errors,         \* "error" events the server has emitted
    logged,         \* errors written by the console.error listener of line 66
    lastOp,         \* the last expose/destroy call and the value its promise resolved with
    forms           \* per thing: the slugs in the hrefs of the forms expose attached

vars == <<listening, things, req, code, out, ended, onFinish, finished, pending,
          timer, ticks, inflight, listeners, calls, lookups, settled,
          startPromise, stopPromise, errorListeners, errors, logged, lastOp, forms>>

lifeVars == <<startPromise, stopPromise, errorListeners, errors, logged>>
adminVars == <<startPromise, stopPromise, errorListeners, errors, logged, lastOp, forms>>

IsReq(r) == req[r].method # "none"

reqVars == <<req, code, out, ended, onFinish, finished, pending, timer, ticks,
             inflight, listeners, calls, lookups, settled>>

Init ==
    /\ listening = FALSE
    /\ things = [name \in {} |-> "thingA"]
    /\ req = [r \in Requests |-> NoReq]
    /\ code = [r \in Requests |-> Undefined]
    /\ out = [r \in Requests |-> << >>]
    /\ ended = [r \in Requests |-> FALSE]
    /\ onFinish = [r \in Requests |-> << >>]
    /\ finished = [r \in Requests |-> 0]
    /\ pending = [r \in Requests |-> "none"]
    /\ timer = [r \in Requests |-> FALSE]
    /\ ticks = [r \in Requests |-> 0]
    /\ inflight = [r \in Requests |-> {}]
    /\ listeners = [k \in ThingObjs \X EventNames |-> {}]
    /\ calls = [r \in Requests |-> << >>]
    /\ lookups = [r \in Requests |-> 0]
    /\ settled = [r \in Requests |-> "none"]
    /\ startPromise = "none"
    /\ stopPromise = "none"
    /\ errorListeners = << >>
    /\ errors = 0
    /\ logged = 0
    /\ lastOp = [op |-> "none", arg |-> "none", value |-> "none"]
    /\ forms = [thing \in ThingObjs |-> {}]

\* ------------------------------------------------------------ start, stop
\* lines 58-63: start() registers its once("error") listener and calls listen
Start ==
    /\ startPromise = "none"
    /\ startPromise' = "pending"
    /\ errorListeners' = Append(errorListeners, "startReject")
    /\ UNCHANGED <<listening, things, reqVars, stopPromise, errors, logged, lastOp, forms>>

\* a listen callback that registers no "error" listener
listenHandlers_None == << >>

\* lines 65-67: the listeners the listen callback registers on "error"
listenHandlers == <<"log">>

\* lines 63-69: the listen callback
Listen ==
    /\ startPromise = "pending"
    /\ ~listening
    /\ listening' = TRUE
    /\ errorListeners' = errorListeners \o listenHandlers
    /\ startPromise' = "resolved"
    /\ UNCHANGED <<things, reqVars, stopPromise, errors, logged, lastOp, forms>>

\* reject(err) on a promise: only a pending promise changes
RejectPromise(promise) == IF promise = "pending" THEN "rejected" ELSE promise
IsOn(listener) == listener = "log"
HasListener(kind) == \E i \in DOMAIN errorListeners : errorListeners[i] = kind

\* The server emits "error": the listeners of lines 60-62, 65-67 and 77-79
\* run and the once listeners are removed (a listener is registered whenever
\* the server is starting or listening).
ServerError ==
    /\ startPromise = "pending" \/ listening
    /\ errors < MaxErrors
    /\ errors' = errors + 1
    /\ startPromise' = IF HasListener("startReject") THEN RejectPromise(startPromise) ELSE startPromise
    /\ stopPromise' = IF HasListener("stopReject") THEN RejectPromise(stopPromise) ELSE stopPromise
    /\ logged' = IF HasListener("log") THEN logged + 1 ELSE logged
    /\ errorListeners' = SelectSeq(errorListeners, IsOn)
    /\ UNCHANGED <<listening, things, reqVars, lastOp, forms>>

\* lines 75-80: stop() registers its once("error") listener and calls close
Stop ==
    /\ listening
    /\ stopPromise = "none"
    /\ stopPromise' = "pending"
    /\ errorListeners' = Append(errorListeners, "stopReject")
    /\ UNCHANGED <<listening, things, reqVars, startPromise, errors, logged, lastOp, forms>>

\* lines 80-82: the close callback
Closed ==
    /\ listening
    /\ stopPromise # "none"
    /\ listening' = FALSE
    /\ stopPromise' = IF stopPromise = "pending" THEN "resolved" ELSE stopPromise
    /\ UNCHANGED <<things, reqVars, startPromise, errorListeners, errors, logged, lastOp, forms>>

\* getPort()
getPort == IF listening THEN 5683 ELSE -1

\* --------------------------------------------------------- expose, destroy
\* expose(): the slug a thing is stored under
urlPathOf(thing) ==
    LET urlPath == slugify(TitleOf[thing])
    IN  IF urlPath \in DOMAIN things THEN generateUniqueName(urlPath) ELSE urlPath

\* this.things.set(urlPath, thing)
MapSet(map, key, value) == [k \in DOMAIN map \cup {key} |-> IF k = key THEN value ELSE map[k]]

\* expose registering the thing whether or not the server runs
expose_NotRunning(thing) ==
    /\ things' = MapSet(things, urlPathOf(thing), thing)
    /\ forms' = [forms EXCEPT ![thing] = @ \cup {urlPathOf(thing)}]
    /\ lastOp' = [op |-> "expose", arg |-> thing, value |-> "void"]
    /\ UNCHANGED <<listening, reqVars, lifeVars>>

\* lines 100-177: on a running server the thing is stored and forms with the
\* slug in their href are pushed onto its affordances; the promise resolves
expose(thing) ==
    /\ things' = IF getPort # -1 THEN MapSet(things, urlPathOf(thing), thing) ELSE things
    /\ forms' = IF getPort # -1 THEN [forms EXCEPT ![thing] = @ \cup {urlPathOf(thing)}] ELSE forms
    /\ lastOp' = [op |-> "expose", arg |-> thing, value |-> "void"]
    /\ UNCHANGED <<listening, reqVars, lifeVars>>

\* destroy deleting only one of the entries that hold the id
destroyKeeps_OnlyFirst(thingId) ==
    LET held == {name \in DOMAIN things : IdOf[things[name]] = thingId}
    IN  IF held = {} THEN DOMAIN things ELSE DOMAIN things \ {CHOOSE name \in held : TRUE}

\* destroy(thingId): the entries left, and the promise's value
destroyKeeps(thingId) == {name \in DOMAIN things : IdOf[things[name]] # thingId}
destroyResult(thingId) == \E name \in DOMAIN things : IdOf[things[name]] = thingId

\* destroy reporting a removal whatever it found
destroyValue_Always(thingId) == "true"

\* lines 190-195: resolve(removedThing !== undefined)
destroyValue(thingId) == IF destroyResult(thingId) THEN "true" ELSE "false"

destroy(thingId) ==
    /\ things' = [name \in destroyKeeps(thingId) |-> things[name]]
    /\ lastOp' = [op |-> "destroy", arg |-> thingId,
                  value |-> destroyValue(thingId)]
    /\ UNCHANGED <<listening, reqVars, lifeVars, forms>>

\* -------------------------------------------------------- handleRequest
\* What one run of the handler's synchronous part does, as a record:
\* the final res.code, the calls made on res, the ThingRuntime calls, the
\* promise or timer it leaves behind.
\* res._packet as the transport set it up: the request's token and
\* confirmable flag
RequestPacket == [token |-> "request", confirmable |-> "request"]

E0 == [code |-> Undefined, frames |-> << >>, ended |-> FALSE, pending |-> "none",
       timer |-> FALSE, calls |-> << >>, lookups |-> 0, onFinish |-> << >>,
       listen |-> FALSE, thing |-> Undefined, packet |-> RequestPacket, steps |-> << >>]

\* res.code = c; res.end(text)
Respond(c, text, n, thing) ==
    [E0 EXCEPT !.code = c, !.ended = TRUE, !.lookups = n, !.thing = thing,
               !.frames = << [op |-> "end", code |-> c, body |-> <<"text", text>>] >>]

\* lines 216-226: the content type the handler goes on with
contentTypeOf(method, contentFormat, payload) ==
    IF method \in {"PUT", "POST"} /\ ~Truthy(contentFormat) /\ Truthy(payload)
    THEN DEFAULT ELSE contentFormat

\* admissionRejects applied to POST only
admissionRejects_PostOnly(method, contentFormat, payload) ==
    /\ method = "POST"
    /\ ~(~Truthy(contentFormat) /\ Truthy(payload))
    /\ getMediaType(contentFormat) \notin getSupportedMediaTypes

\* admissionRejects without the default for a missing Content-Format
admissionRejects_NoDefault(method, contentFormat, payload) ==
    /\ method \in {"PUT", "POST"}
    /\ \/ ~Truthy(contentFormat)
       \/ getMediaType(contentFormat) \notin getSupportedMediaTypes

\* lines 218-233: the admission check answers 4.15
admissionRejects(method, contentFormat, payload) ==
    /\ method \in {"PUT", "POST"}
    /\ ~(~Truthy(contentFormat) /\ Truthy(payload))
    /\ getMediaType(contentFormat) \notin getSupportedMediaTypes

\* lines 244-259: the list of thing URIs (one address), in a fixed slug order
SlugOrder == <<"lamp", "lamp_2", "lamp_3", "thing", "thing_2">>
InRegistry(slug) == slug \in DOMAIN things
listing == <<"list">> \o SelectSeq(SlugOrder, InRegistry)

\* lines 286-360: GET on a property
propertyGet(thing, name, observe) ==
    IF observe = {}
    THEN [E0 EXCEPT !.lookups = 1, !.thing = thing, !.pending = "read",
                    !.calls = << <<"readProperty", name>> >>]
    ELSE [E0 EXCEPT !.lookups = 1, !.thing = thing, !.timer = TRUE]

\* writeAllowed without the readOnly test
writeAllowed_NoCheck(name) == TRUE

\* line 363: the write goes ahead
writeAllowed(name) == ~ReadOnlyOf[name]

\* propertyPut answering a read-only property like a wrong method
propertyPut_MethodNotAllowed(thing, name, contentType, payload) ==
    IF writeAllowed(name)
    THEN IF contentToValueThrows(payload)
         THEN Respond("4.00", "Invalid Data", 1, thing)
         ELSE [E0 EXCEPT !.lookups = 1, !.thing = thing, !.pending = "write",
                         !.calls = << <<"writeProperty", name, contentToValue(payload)>> >>]
    ELSE Respond("4.05", "Method Not Allowed", 1, thing)

\* propertyPut handing the payload to writeProperty without the try/catch
propertyPut_NoTry(thing, name, contentType, payload) ==
    IF writeAllowed(name)
    THEN [E0 EXCEPT !.lookups = 1, !.thing = thing, !.pending = "write",
                    !.calls = << <<"writeProperty", name, contentToValue(payload)>> >>]
    ELSE Respond("4.00", "Property readOnly", 1, thing)

\* lines 362-401: PUT on a property
propertyPut(thing, name, contentType, payload) ==
    IF writeAllowed(name)
    THEN IF contentToValueThrows(payload)
         THEN Respond("4.00", "Invalid Data", 1, thing)
         ELSE [E0 EXCEPT !.lookups = 1, !.thing = thing, !.pending = "write",
                         !.calls = << <<"writeProperty", name, contentToValue(payload)>> >>]
    ELSE Respond("4.00", "Property readOnly", 1, thing)

\* an action invoked whatever the method
actionRequest_AnyMethod(thing, name, method, contentType, payload) ==
    IF contentToValueThrows(payload)
    THEN Respond("4.00", "Invalid Input Data", 1, thing)
    ELSE [E0 EXCEPT !.lookups = 1, !.thing = thing, !.pending = "invoke",
                    !.calls = << <<"invokeAction", name, contentToValue(payload)>> >>]

\* lines 414-468: an action
actionRequest(thing, name, method, contentType, payload) ==
    IF method = "POST"
    THEN IF contentToValueThrows(payload)
         THEN Respond("4.00", "Invalid Input Data", 1, thing)
         ELSE [E0 EXCEPT !.lookups = 1, !.thing = thing, !.pending = "invoke",
                         !.calls = << <<"invokeAction", name, contentToValue(payload)>> >>]
    ELSE Respond("4.05", "Method Not Allowed", 1, thing)

\* the work-around leaving the empty token of the acknowledgement on the packet
ackWorkaround_NoRestore ==
    [sent |-> [op |-> "ack", code |-> "0.00", body |-> << >>],
     packet |-> [token |-> "empty", confirmable |-> "request"]]

\* lines 479-492: the empty acknowledgement sent with res._send, and
\* res._packet after its token and confirmable flag are set back
ackWorkaround ==
    [sent |-> [op |-> "ack", code |-> "0.00", body |-> << >>],
     packet |-> [token |-> "request", confirmable |-> "request"]]

\* an event subscribed to for every Observe value
eventRequest_AnyObserve(thing, name, method, observe, accept) ==
    IF method = "GET"
    THEN IF observe # {}
         THEN [E0 EXCEPT !.lookups = 1, !.thing = thing,
                         !.frames = << ackWorkaround.sent >>,
                         !.packet = ackWorkaround.packet,
                         !.calls = << <<"subscribeEvent", name>> >>,
                         !.listen = accept,
                         !.pending = IF accept THEN "subscribe" ELSE "subscribeFails",
                         !.onFinish = <<"evt">>,
                         !.steps = <<"_send", "restore", "subscribeEvent", "on finish">>]
         ELSE Respond("4.00", "No Observe Option", 1, thing)
    ELSE Respond("4.05", "Method Not Allowed", 1, thing)

\* lines 477-599: an event; accept is the runtime's decision to register the listener
eventRequest(thing, name, method, observe, accept) ==
    IF method = "GET"
    THEN IF observe = {0}
         THEN [E0 EXCEPT !.lookups = 1, !.thing = thing,
                         !.frames = << ackWorkaround.sent >>,
                         !.packet = ackWorkaround.packet,
                         !.calls = << <<"subscribeEvent", name>> >>,
                         !.listen = accept,
                         !.pending = IF accept THEN "subscribe" ELSE "subscribeFails",
                         !.onFinish = <<"evt">>,
                         !.steps = <<"_send", "restore", "subscribeEvent", "on finish">>]
         ELSE IF \E o \in observe : o > 0
         THEN Respond("5.01", "node-coap issue: no GET cancellation, send RST", 1, thing)
         ELSE Respond("4.00", "No Observe Option", 1, thing)
    ELSE Respond("4.05", "Method Not Allowed", 1, thing)

\* lines 266-609: a path that names a thing
thingRequest(method, segments, contentType, payload, observe, accept) ==
    LET thing == things[Seg(segments, 1)]
        name == Seg(segments, 3)
    IN  IF Len(segments) = 2 \/ Seg(segments, 2) = ""
        THEN IF method = "GET"
             THEN [Respond("2.05", "td", 1, thing) EXCEPT !.frames[1].body = <<"td", thing>>]
             ELSE Respond("4.05", "Method Not Allowed", 1, thing)
        ELSE IF Seg(segments, 2) = PROPERTY_DIR /\ HasProperty(name)
        THEN CASE method = "GET" -> propertyGet(thing, name, observe)
               [] method = "PUT" -> propertyPut(thing, name, contentType, payload)
               [] OTHER -> Respond("4.05", "Method Not Allowed", 1, thing)
        ELSE IF Seg(segments, 2) = ACTION_DIR /\ HasAction(name)
        THEN actionRequest(thing, name, method, contentType, payload)
        ELSE IF Seg(segments, 2) = EVENT_DIR /\ HasEvent(name)
        THEN eventRequest(thing, name, method, observe, accept)
        ELSE Respond("4.04", "Not Found", 1, thing)

\* lines 215-609: the whole synchronous part
route(method, segments, contentFormat, payload, observe, accept) ==
    IF admissionRejects(method, contentFormat, payload)
    THEN Respond("4.15", "Unsupported Media Type", 0, Undefined)
    ELSE IF Seg(segments, 1) = ""
    THEN IF method = "GET"
         THEN [Respond("2.05", "list", 1, Undefined) EXCEPT !.frames[1].body = listing]
         ELSE Respond("4.05", "Method Not Allowed", 0, Undefined)
    ELSE IF Seg(segments, 1) \in DOMAIN things
    THEN thingRequest(method, segments, contentTypeOf(method, contentFormat, payload),
                      payload, observe, accept)
    ELSE Respond("4.04", "Not Found", 1, Undefined)

\* A call on res as the transport sees it: tick is the timer tick that
\* produced it (0: none), late says a "finish" signal had been delivered.
Stamp(frame, r, tick) ==
    [op |-> frame.op, code |-> frame.code, body |-> frame.body, tick |-> tick,
     late |-> finished[r] > 0]
StampAll(frames, r) == [i \in 1..Len(frames) |-> Stamp(frames[i], r, 0)]

handleRequest(r, method, segments, contentFormat, payload, observe, accept) ==
    LET eff == route(method, segments, contentFormat, payload, observe, accept)
    IN  /\ req' = [req EXCEPT ![r] =
                     [method |-> method, segments |-> segments, contentFormat |-> contentFormat,
                      payload |-> payload, observe |-> observe, thing |-> eff.thing,
                      slugKnown |-> Seg(segments, 1) \in DOMAIN things,
                      errors |-> errors, lastOp |-> lastOp,
                      packet |-> eff.packet, steps |-> eff.steps]]
        /\ code' = [code EXCEPT ![r] = eff.code]
        /\ out' = [out EXCEPT ![r] = StampAll(eff.frames, r)]
        /\ ended' = [ended EXCEPT ![r] = eff.ended]
        /\ onFinish' = [onFinish EXCEPT ![r] = <<"log">> \o eff.onFinish]
        /\ pending' = [pending EXCEPT ![r] = eff.pending]
        /\ timer' = [timer EXCEPT ![r] = eff.timer]
        /\ calls' = [calls EXCEPT ![r] = eff.calls]
        /\ lookups' = [lookups EXCEPT ![r] = eff.lookups]
        /\ listeners' = IF eff.listen
                        THEN [listeners EXCEPT ![<<eff.thing, Seg(segments, 3)>>] = @ \cup {r}]
                        ELSE listeners
        /\ UNCHANGED <<adminVars, listening, things, finished, ticks, inflight, settled>>

\* The transport delivers a request on the free slot r of a listening server.
Request(r, methods, paths, formats, payloads, observes) ==
    /\ listening
    /\ ~IsReq(r)
    /\ \E method \in methods, segments \in paths, contentFormat \in formats,
          payload \in payloads, observe \in observes, accept \in BOOLEAN :
            handleRequest(r, method, segments, contentFormat, payload, observe, accept)

\* ------------------------------------------- continuations of a one-shot
\* res.code = "5.00"; res.end(err.message)
internalError == [op |-> "end", code |-> "5.00", body |-> <<"text", "error">>]

\* Append one call on res to the slot's output.
Emit(r, frame, tick) ==
    /\ out' = [out EXCEPT ![r] = Append(@, Stamp(frame, r, tick))]
    /\ code' = [code EXCEPT ![r] = frame.code]
    /\ ended' = [ended EXCEPT ![r] = @ \/ frame.op = "end"]

\* readThen with the default media type in place of the property's own
readThen_DefaultType(name, value) ==
    IF valueToContentThrows(value)
    THEN internalError
    ELSE [op |-> "end", code |-> "2.05", body |-> valueToContent(value, DEFAULT).body]

\* lines 292-316: readProperty settled with a value
readThen(name, value) ==
    IF valueToContentThrows(value)
    THEN internalError
    ELSE [op |-> "end", code |-> "2.05",
          body |-> valueToContent(value, getPropertyContentType[name]).body]

ReadResolve(r, value) ==
    /\ pending[r] = "read"
    /\ pending' = [pending EXCEPT ![r] = "none"]
    /\ Emit(r, readThen(Seg(req[r].segments, 3), value), 0)
    /\ settled' = [settled EXCEPT ![r] = value]
    /\ UNCHANGED <<adminVars, listening, things, req, onFinish, finished, timer, ticks, inflight,
                   listeners, calls, lookups>>

\* a rejection that also stops every polling timer of the server
Reject_All(r) ==
    /\ pending[r] \in {"read", "write", "invoke"}
    /\ pending' = [pending EXCEPT ![r] = "none"]
    /\ Emit(r, internalError, 0)
    /\ settled' = [settled EXCEPT ![r] = "rejected"]
    /\ timer' = [s \in Requests |-> FALSE]
    /\ UNCHANGED <<adminVars, listening, things, req, onFinish, finished, ticks, inflight,
                   listeners, calls, lookups>>

\* lines 307-316, 388-397, 455-464: the capability's promise rejected
Reject(r) ==
    /\ pending[r] \in {"read", "write", "invoke"}
    /\ pending' = [pending EXCEPT ![r] = "none"]
    /\ Emit(r, internalError, 0)
    /\ settled' = [settled EXCEPT ![r] = "rejected"]
    /\ UNCHANGED <<adminVars, listening, things, req, onFinish, finished, timer, ticks, inflight,
                   listeners, calls, lookups>>

\* lines 384-387: writeProperty resolved
WriteResolve(r) ==
    /\ pending[r] = "write"
    /\ pending' = [pending EXCEPT ![r] = "none"]
    /\ Emit(r, [op |-> "end", code |-> "2.04", body |-> <<"text", "Changed">>], 0)
    /\ settled' = [settled EXCEPT ![r] = "resolved"]
    /\ UNCHANGED <<adminVars, listening, things, req, onFinish, finished, timer, ticks, inflight,
                   listeners, calls, lookups>>

\* ProtocolHelpers.getActionContentType
getActionContentType == "application/json"
\* what invokeAction may resolve with
Outputs == Values \cup {Undefined, "false"}

\* lines 435-454: invokeAction resolved with output
invokeThen(output) ==
    IF Truthy(output)
    THEN IF valueToContentThrows(output)
         THEN internalError
         ELSE [op |-> "end", code |-> "2.05",
               body |-> valueToContent(output, getActionContentType).body]
    ELSE [op |-> "end", code |-> "2.04", body |-> << >>]

InvokeResolve(r, output) ==
    /\ pending[r] = "invoke"
    /\ pending' = [pending EXCEPT ![r] = "none"]
    /\ Emit(r, invokeThen(output), 0)
    /\ settled' = [settled EXCEPT ![r] = output]
    /\ UNCHANGED <<adminVars, listening, things, req, onFinish, finished, timer, ticks, inflight,
                   listeners, calls, lookups>>

\* ------------------------------------------------- property observation
\* lines 319-322: the setInterval callback starts a read
Tick(r) ==
    /\ timer[r]
    /\ ticks[r] < MaxTicks
    /\ ticks' = [ticks EXCEPT ![r] = @ + 1]
    /\ inflight' = [inflight EXCEPT ![r] = @ \cup {ticks[r] + 1}]
    /\ calls' = [calls EXCEPT ![r] = Append(@, <<"readProperty", Seg(req[r].segments, 3)>>)]
    /\ UNCHANGED <<adminVars, listening, things, req, code, out, ended, onFinish, finished, pending,
                   timer, listeners, lookups, settled>>

\* lines 323-336 and 349-358: what the tick's read, once settled, puts on res
tickThen(name, value) ==
    IF valueToContentThrows(value)
    THEN internalError
    ELSE [op |-> "write", code |-> "2.05",
          body |-> valueToContent(value, getPropertyContentType[name]).body]

\* lines 338-347: the tick registers its own "finish" handler after a write
tickFinishHandlers(frame) == IF frame.op = "write" THEN <<"obs">> ELSE << >>

TickResolve(r, n, value) ==
    LET frame == tickThen(Seg(req[r].segments, 3), value)
    IN  /\ n \in inflight[r]
        /\ inflight' = [inflight EXCEPT ![r] = @ \ {n}]
        /\ Emit(r, frame, n)
        /\ onFinish' = [onFinish EXCEPT ![r] = @ \o tickFinishHandlers(frame)]
        /\ UNCHANGED <<adminVars, listening, things, req, finished, pending, timer, ticks,
                       listeners, calls, lookups, settled>>

\* lines 349-358: the tick's read rejected
TickReject(r, n) ==
    /\ n \in inflight[r]
    /\ inflight' = [inflight EXCEPT ![r] = @ \ {n}]
    /\ Emit(r, internalError, n)
    /\ UNCHANGED <<adminVars, listening, things, req, onFinish, finished, pending, timer, ticks,
                   listeners, calls, lookups, settled>>

\* ---------------------------------------------------- event observation
\* lines 547-555: subscribeEvent's promise resolved: res.end()
SubscribeResolve(r) ==
    /\ pending[r] = "subscribe"
    /\ pending' = [pending EXCEPT ![r] = "none"]
    /\ Emit(r, [op |-> "end", code |-> code[r], body |-> << >>], 0)
    /\ settled' = [settled EXCEPT ![r] = "resolved"]
    /\ UNCHANGED <<adminVars, listening, things, req, onFinish, finished, timer, ticks, inflight,
                   listeners, calls, lookups>>

\* a catch handler that ends the response without setting the code
subscribeCatch_NoCode(c) == [op |-> "end", code |-> c, body |-> << >>]

\* lines 556-563: the catch handler: res.code = "5.00"; res.end()
subscribeCatch(c) == [op |-> "end", code |-> "5.00", body |-> << >>]

\* lines 556-563: subscribeEvent's promise rejected
SubscribeReject(r) ==
    /\ pending[r] = "subscribeFails"
    /\ pending' = [pending EXCEPT ![r] = "none"]
    /\ Emit(r, subscribeCatch(code[r]), 0)
    /\ settled' = [settled EXCEPT ![r] = "rejected"]
    /\ UNCHANGED <<adminVars, listening, things, req, onFinish, finished, timer, ticks, inflight,
                   listeners, calls, lookups>>

\* lines 498-535: the listener handed to subscribeEvent, called with data
eventThen(name, data) ==
    IF valueToContentThrows(data)
    THEN [op |-> "end", code |-> "5.00", body |-> <<"text", "Invalid Event Data">>]
    ELSE [op |-> "write", code |-> "2.05",
          body |-> valueToContent(data, getEventContentType[name]).body]

\* The ThingRuntime emits event name of thing with data: every registered
\* listener of that event runs.
EventCallback(thing, name, data) ==
    LET subs == listeners[<<thing, name>>]
        frame == eventThen(name, data)
    IN  /\ subs # {}
        /\ \A r \in subs : Len(out[r]) < MaxOut
        /\ out' = [r \in Requests |-> IF r \in subs THEN Append(out[r], Stamp(frame, r, 0)) ELSE out[r]]
        /\ code' = [r \in Requests |-> IF r \in subs THEN frame.code ELSE code[r]]
        /\ ended' = [r \in Requests |-> IF r \in subs THEN ended[r] \/ frame.op = "end" ELSE ended[r]]
        /\ UNCHANGED <<adminVars, listening, things, req, onFinish, finished, pending, timer, ticks,
                       inflight, listeners, calls, lookups, settled>>

\* -------------------------------------------------------------- "finish"
\* how many handlers of a kind are registered on the slot's sink
Registered(r, kind) == Cardinality({i \in DOMAIN onFinish[r] : onFinish[r][i] = kind})

\* unsubscribed clearing every event of the thing
unsubscribed_All(thing, name) == {<<thing, e>> : e \in EventNames}

\* line 573: the listener keys thing.unsubscribeEvent(segments[3]) clears
unsubscribed(thing, name) == {<<thing, name>>}

\* lines 345-346: each "obs" handler calls clearInterval(oInterval); res.end()
obsFinishFrames(r) ==
    [i \in 1..Registered(r, "obs") |->
        [op |-> "end", code |-> code[r], body |-> << >>, tick |-> 0, late |-> TRUE]]

\* The sink emits "finish" (the stream ended or the peer went away): the
\* handlers of lines 206-213, 338-347 and 564-575 run in registration order.
Finish(r) ==
    LET name == Seg(req[r].segments, 3)
        evt == Registered(r, "evt") > 0
        obs == Registered(r, "obs") > 0
    IN  /\ IsReq(r)
        /\ finished[r] < MaxFinish
        /\ ended[r] \/ req[r].observe # {}
        /\ finished' = [finished EXCEPT ![r] = @ + 1]
        /\ timer' = [timer EXCEPT ![r] = @ /\ ~obs]
        /\ out' = [out EXCEPT ![r] = @ \o obsFinishFrames(r)]
        /\ ended' = [ended EXCEPT ![r] = @ \/ obs]
        /\ calls' = [calls EXCEPT ![r] = IF evt THEN Append(@, <<"unsubscribeEvent", name>>) ELSE @]
        /\ listeners' = IF evt
                        THEN [k \in DOMAIN listeners |->
                                IF k \in unsubscribed(req[r].thing, name) THEN {} ELSE listeners[k]]
                        ELSE listeners
        /\ UNCHANGED <<adminVars, listening, things, req, code, onFinish, pending, ticks, inflight, lookups, settled>>

\* ------------------------------------------------------- specifications
\* One exchange at a time, every request the transport can deliver.
One == {"A"}

Next ==
    \/ Start
    \/ Listen
    \/ expose("thingA")
    \/ destroy(IdOf["thingA"])
    \/ \E r \in One : Request(r, Methods, Paths, ContentFormats, Payloads, Observes)
    \/ \E r \in One, value \in Values : ReadResolve(r, value)
    \/ \E r \in One : Reject(r)
    \/ \E r \in One : WriteResolve(r)
    \/ \E r \in One, output \in Outputs : InvokeResolve(r, output)
    \/ \E r \in One : Tick(r)
    \/ \E r \in One, n \in 1..MaxTicks, value \in Values : TickResolve(r, n, value)
    \/ \E r \in One, n \in 1..MaxTicks : TickReject(r, n)
    \/ \E r \in One : SubscribeResolve(r)
    \/ \E r \in One : SubscribeReject(r)
    \/ \E thing \in ThingObjs, name \in EventNames, data \in Values : EventCallback(thing, name, data)
    \/ \E r \in One : Finish(r)

Spec == Init /\ [][Next]_vars

\* Two concurrent subscriber streams: GET requests on the lamp's events.
StreamPaths == { <<"", "lamp", "events", "overheated">>,
                 <<"", "lamp", "events", "changed">> }

NextStreams ==
    \/ Start
    \/ Listen
    \/ expose("thingA")
    \/ \E r \in Requests : Request(r, {"GET"}, StreamPaths, {Undefined}, {"buf:empty"}, {{}, {0}})
    \/ \E r \in Requests : SubscribeResolve(r)
    \/ \E r \in Requests : SubscribeReject(r)
    \/ \E thing \in ThingObjs, name \in EventNames, data \in Values : EventCallback(thing, name, data)
    \/ \E r \in Requests : Finish(r)

SpecStreams == Init /\ [][NextStreams]_vars

\* A one-shot exchange on slot A next to slot B, which holds another
\* one-shot read, a property observation or an event subscription.
OneShotPaths == { <<"", "lamp", "properties", "on">>, <<"", "lamp", "actions", "toggle">> }
ObservedPaths == { <<"", "lamp", "properties", "on">>, <<"", "lamp", "events", "overheated">> }
Other == {"B"}

NextMixed ==
    \/ Start
    \/ Listen
    \/ expose("thingA")
    \/ \E r \in One : Request(r, {"GET", "PUT", "POST"}, OneShotPaths, {Undefined}, {"buf:true"}, {{}})
    \/ \E r \in Other : Request(r, {"GET"}, ObservedPaths, {Undefined}, {"buf:empty"}, {{}, {0}})
    \/ \E r \in Requests, value \in Values : ReadResolve(r, value)
    \/ \E r \in Requests : Reject(r)
    \/ \E r \in One : WriteResolve(r)
    \/ \E r \in One, output \in Outputs : InvokeResolve(r, output)
    \/ \E r \in Other : Tick(r)
    \/ \E r \in Other, n \in 1..MaxTicks, value \in Values : TickResolve(r, n, value)
    \/ \E r \in Other, n \in 1..MaxTicks : TickReject(r, n)
    \/ \E r \in Other : SubscribeResolve(r)
    \/ \E r \in Other : SubscribeReject(r)
    \/ \E thing \in ThingObjs, name \in EventNames, data \in Values : EventCallback(thing, name, data)
    \/ \E r \in Requests : Finish(r)

SpecMixed == Init /\ [][NextMixed]_vars

\* The registry: every thing exposed and destroyed, before and after the
\* server started, and GET requests on the listing and the thing roots.
RegistryPaths == { <<"", "">>, <<"", "lamp">>, <<"", "lamp_2">> }

NextRegistry ==
    \/ Start
    \/ Listen
    \/ \E thing \in ThingObjs : expose(thing)
    \/ \E thingId \in ThingIds : destroy(thingId)
    \/ \E r \in One : Request(r, {"GET"}, RegistryPaths, {Undefined}, {"buf:empty"}, {{}})

SpecRegistry == Init /\ [][NextRegistry]_vars

\* The server's life: start, errors, stop, with one thing exposed and
\* destroyed at any moment and GET requests on the listing and the thing roots.
NextLifecycle ==
    \/ Start
    \/ Listen
    \/ ServerError
    \/ Stop
    \/ Closed
    \/ expose("thingA")
    \/ destroy(IdOf["thingA"])
    \/ \E r \in One : Request(r, {"GET"}, RegistryPaths, {Undefined}, {"buf:empty"}, {{}})

SpecLifecycle == Init /\ [][NextLifecycle]_vars

\* ================================================================ claims
\* The request of slot r addresses /{slug}/{dir}/{name} with a registered
\* slug and a declared name.
OnResource(r, dir, names) ==
    /\ IsReq(r)
    /\ req[r].slugKnown
    /\ Len(req[r].segments) = 4
    /\ req[r].segments[3] = dir
    /\ req[r].segments[4] \in names
NameOf(r) == req[r].segments[4]

OnProperty(r) == OnResource(r, PROPERTY_DIR, PropertyNames)
OnEvent(r) == OnResource(r, EVENT_DIR, EventNames)
OnReadOnly(r) == OnProperty(r) /\ ReadOnlyOf[NameOf(r)]

\* frames of a kind in the slot's output
Frames(r, op) == {i \in DOMAIN out[r] : out[r][i].op = op}
HasCode(r, c) == \E i \in DOMAIN out[r] : out[r][i].code = c
Called(r, capability) == \E i \in DOMAIN calls[r] : calls[r][i][1] = capability
Unsupported(contentFormat) ==
    contentFormat # Undefined /\ getMediaType(contentFormat) \notin getSupportedMediaTypes

\* C1: a GET without Observe on a declared property of a registered thing,
\* whose readProperty resolved with a value the codec can encode, has exactly
\* one response: 2.05 with that value serialized in the property's content type.
C1_OneShotRead ==
    \A r \in Requests :
        ( /\ OnProperty(r)
          /\ req[r].method = "GET"
          /\ req[r].observe = {}
          /\ settled[r] \in Values
          /\ ~valueToContentThrows(settled[r]) )
        => /\ Len(out[r]) = 1
           /\ out[r][1].op = "end"
           /\ out[r][1].code = "2.05"
           /\ out[r][1].body = <<"bytes", getPropertyContentType[NameOf(r)], settled[r]>>

C1_Witness ==
    \E r \in Requests :
        /\ OnProperty(r) /\ NameOf(r) = "ro"
        /\ req[r].method = "GET" /\ req[r].observe = {}
        /\ settled[r] = "true"
        /\ Len(out[r]) = 1

\* C2: a PUT on a declared read-only property never calls writeProperty,
\* whatever its payload and content type.
C2_ReadOnlyNeverWritten ==
    \A r \in Requests :
        (OnReadOnly(r) /\ req[r].method = "PUT") => ~Called(r, "writeProperty")

C2_Witness ==
    \E r \in Requests :
        /\ OnReadOnly(r) /\ req[r].method = "PUT"
        /\ req[r].contentFormat = "application/json" /\ req[r].payload = "buf:true"
        /\ ended[r]

\* C3 as claimed: a PUT on a declared read-only property of a registered
\* thing is always answered 4.00, for every payload and content type.
C3_AlwaysBadRequest ==
    \A r \in Requests :
        (OnReadOnly(r) /\ req[r].method = "PUT")
        => Len(out[r]) = 1 /\ out[r][1].op = "end" /\ out[r][1].code = "4.00"

\* C3 amended: a PUT on a declared read-only property of a registered thing
\* is answered 4.00 for every payload unless its Content-Format is present
\* and unsupported, in which case the admission check answers 4.15.
C3_BadRequestOnceAdmitted ==
    \A r \in Requests :
        (OnReadOnly(r) /\ req[r].method = "PUT")
        => /\ Len(out[r]) = 1
           /\ out[r][1].op = "end"
           /\ out[r][1].code = IF Unsupported(req[r].contentFormat) THEN "4.15" ELSE "4.00"

C3_Witness ==
    \E r \in Requests :
        /\ OnReadOnly(r) /\ req[r].method = "PUT"
        /\ req[r].contentFormat = Undefined
        /\ HasCode(r, "4.00")

\* C4: a PUT or POST whose Content-Format is present and unsupported is
\* answered 4.15 on every path, without any access to the registry and
\* without any ThingRuntime call.
C4_UnsupportedMediaType ==
    \A r \in Requests :
        (IsReq(r) /\ req[r].method \in {"PUT", "POST"} /\ Unsupported(req[r].contentFormat))
        => /\ Len(out[r]) = 1
           /\ out[r][1].op = "end"
           /\ out[r][1].code = "4.15"
           /\ lookups[r] = 0
           /\ calls[r] = << >>
           /\ pending[r] = "none"

C4_Witness ==
    \E r \in Requests :
        /\ OnProperty(r) /\ NameOf(r) = "on"
        /\ req[r].method = "PUT"
        /\ Unsupported(req[r].contentFormat)
        /\ HasCode(r, "4.15")

\* C5: a PUT or POST without Content-Format is never answered 4.15, with
\* or without payload; it goes on to routing (a path naming a slug makes
\* the handler look the slug up).
C5_NoFormatAdmitted ==
    \A r \in Requests :
        (IsReq(r) /\ req[r].method \in {"PUT", "POST"} /\ req[r].contentFormat = Undefined)
        => /\ ~HasCode(r, "4.15")
           /\ req[r].segments[2] # "" => lookups[r] = 1

C5_Witness ==
    \E r \in Requests :
        /\ OnProperty(r) /\ NameOf(r) = "on"
        /\ req[r].method = "PUT"
        /\ req[r].contentFormat = Undefined
        /\ req[r].payload = "buf:empty"
        /\ Called(r, "writeProperty")

\* The slot holds a property observation (the timer was started).
Observation(r) == OnProperty(r) /\ req[r].method = "GET" /\ req[r].observe # {}

\* C6: once the finish signal was delivered for a property observation, no
\* further notification is written to its stream.
C6_NoNotificationAfterFinish ==
    \A r \in Requests :
        Observation(r) => \A i \in Frames(r, "write") : ~out[r][i].late

\* C7: a property observation has at most one notification in flight: no
\* tick starts reading while an earlier tick has not completed.
C7_OneInFlight ==
    \A r \in Requests : Observation(r) => Cardinality(inflight[r]) <= 1

\* C8: the notifications of a property observation reach the transport in
\* the order of the ticks that produced them.
C8_TickOrder ==
    \A r \in Requests :
        Observation(r) =>
            \A i, j \in Frames(r, "write") : i < j => out[r][i].tick <= out[r][j].tick

\* The slot holds an event observe-register request.
Subscription(r) == OnEvent(r) /\ req[r].method = "GET" /\ req[r].observe = {0}
\* ... whose subscribeEvent did not fail
Accepted(r) == Subscription(r) /\ pending[r] # "subscribeFails" /\ settled[r] # "rejected"
KeyOf(r) == <<req[r].thing, NameOf(r)>>

\* C9: for two event subscriptions a, b of different streams on different
\* events of one thing, the step delivering a's finish signal clears a's
\* event only and leaves b's stream, listener and output as they were; so
\* while b has had no finish signal its listener stays registered and every
\* notification on b carries b's own event's payload.
C9_FinishTouchesOnlyA ==
    \A a, b \in Requests :
        ( /\ a # b /\ Subscription(a) /\ Subscription(b)
          /\ req[a].thing = req[b].thing /\ NameOf(a) # NameOf(b)
          /\ finished'[a] > finished[a] )
        => /\ listeners'[KeyOf(a)] = {}
           /\ Called(a, "unsubscribeEvent")'
           /\ listeners'[KeyOf(b)] = listeners[KeyOf(b)]
           /\ out'[b] = out[b] /\ ended'[b] = ended[b] /\ code'[b] = code[b]
           /\ finished'[b] = finished[b] /\ calls'[b] = calls[b]

C9_BStaysSubscribed ==
    \A a, b \in Requests :
        ( /\ a # b /\ Subscription(a) /\ Accepted(b)
          /\ req[a].thing = req[b].thing /\ NameOf(a) # NameOf(b)
          /\ finished[a] > 0 /\ finished[b] = 0 )
        => /\ b \in listeners[KeyOf(b)]
           /\ \A i \in Frames(b, "write") :
                 /\ out[b][i].code = "2.05"
                 /\ out[b][i].body[2] = getEventContentType[NameOf(b)]

C9_Independent == [][C9_FinishTouchesOnlyA]_vars /\ []C9_BStaysSubscribed

C9_Witness ==
    \E a, b \in Requests :
        /\ a # b /\ Accepted(a) /\ Accepted(b)
        /\ req[a].thing = req[b].thing /\ NameOf(a) # NameOf(b)
        /\ finished[a] > 0 /\ finished[b] = 0
        /\ Called(a, "unsubscribeEvent")
        /\ Cardinality(Frames(b, "write")) = 2

\* C10: on an event observation whose subscribeEvent did not fail and whose
\* stream got no finish signal, the server never ends the stream by itself:
\* after the acknowledgement everything it puts on the stream is a 2.05
\* notification with the serialized payload (or the error of a payload the
\* codec cannot encode).
C10_StreamStaysOpen ==
    \A r \in Requests :
        (Accepted(r) /\ finished[r] = 0)
        => \A i \in DOMAIN out[r] :
              \/ i = 1 /\ out[r][i].op = "ack"
              \/ out[r][i].op = "write" /\ out[r][i].code = "2.05"
              \/ out[r][i].op = "end" /\ out[r][i].body = <<"text", "Invalid Event Data">>


\* ------------------------------------------------------------- registry
\* entries of the registry whose thing has the id
Holding(map, thingId) == {name \in DOMAIN map : IdOf[map[name]] = thingId}
\* the step is a call of the operation (a call that changes nothing at all
\* is a stuttering step)
IsCall(op) == lastOp' # lastOp /\ lastOp'.op = op
\* slugs listed by a listing response of the slot
Listed(r) ==
    UNION {{out[r][i].body[j] : j \in 2..Len(out[r][i].body)} :
           i \in {k \in DOMAIN out[r] : out[r][k].body[1] = "list"}}

\* C11 (step): destroy(id) for a held id deletes the entries with that id,
\* keeps every other entry as it was and resolves true; a destroy(id) right
\* after a destroy of the same id resolves false.
C11_DestroyStep ==
    /\ IsCall("destroy") /\ Holding(things, lastOp'.arg) # {} =>
        /\ DOMAIN things' = DOMAIN things \ Holding(things, lastOp'.arg)
        /\ \A name \in DOMAIN things' : things'[name] = things[name]
        /\ lastOp'.value = "true"
    /\ IsCall("destroy") /\ lastOp.op = "destroy" /\ lastOp'.arg = lastOp.arg =>
        lastOp'.value = "false"

\* C11 (request): a request handled while destroy(id) is the last registry
\* call looks up no thing with the id, and a listing it returns has the
\* registered slugs only.
C11_RequestStep ==
    \A r \in Requests :
        lastOp.op = "destroy" /\ ~IsReq(r) /\ IsReq(r)' =>
            /\ req'[r].thing # Undefined => IdOf[req'[r].thing] # lastOp.arg
            /\ Listed(r)' \subseteq DOMAIN things
            /\ \A slug \in Listed(r)' : IdOf[things[slug]] # lastOp.arg

\* C11 (state): while destroy(id) is the last registry call, no entry has
\* the id.
C11_Gone == lastOp.op = "destroy" => Holding(things, lastOp.arg) = {}

\* C11: destroy(id) for a held id removes exactly the entries with that id,
\* resolves true, the thing is in no later listing or lookup, and a second
\* destroy(id) resolves false.
C11_DestroyRemoves == [][C11_DestroyStep /\ C11_RequestStep]_vars /\ []C11_Gone

\* two entries were registered, the one with the destroyed id is gone, the
\* other is still listed, and the destroyed thing's old slug is not found
C11_Witness ==
    /\ lastOp = [op |-> "destroy", arg |-> "urn:a", value |-> "true"]
    /\ DOMAIN things = {"lamp_2"}
    /\ IsReq("A") /\ req["A"].lastOp = lastOp
    /\ req["A"].segments = <<"", "">> /\ Listed("A") = {"lamp_2"}


\* C12: destroy(id) for an id no registered thing holds resolves false and
\* leaves the registry as it was.
C12_UnknownIdStep ==
    IsCall("destroy") /\ Holding(things, lastOp'.arg) = {} =>
        lastOp'.value = "false" /\ things' = things
C12_UnknownId == [][C12_UnknownIdStep]_vars

\* two things are registered and the last call destroyed an id nobody holds
C12_Witness ==
    /\ lastOp = [op |-> "destroy", arg |-> "urn:unknown", value |-> "false"]
    /\ DOMAIN things = {"lamp", "lamp_2"}

\* C13: on a running server an expose call registers the thing under a slug
\* that was free, and leaves every entry registered before as it was.
C13_ExposeStep ==
    lastOp'.op = "expose" =>
        /\ \A name \in DOMAIN things : name \in DOMAIN things' /\ things'[name] = things[name]
        /\ listening /\ IsCall("expose") =>
               \E name \in DOMAIN things' \ DOMAIN things : things'[name] = lastOp'.arg
C13_DistinctSlugs == [][C13_ExposeStep]_vars


\* ---------------------------------------------------------------- routing
\* the five path shapes: /, /{slug}, /{slug}/{properties|actions|events}/{name}
FiveShapes(segments) ==
    /\ segments[1] = ""
    /\ \/ Len(segments) = 2
       \/ /\ Len(segments) = 4
          /\ segments[2] # ""
          /\ segments[3] \in {PROPERTY_DIR, ACTION_DIR, EVENT_DIR}
          /\ segments[4] # ""
\* the slot's only output is one response with the code
OnlyResponse(r, c) ==
    /\ code[r] = c
    /\ Len(out[r]) = 1 /\ out[r][1].op = "end" /\ out[r][1].code = c

\* C14: a GET whose path has none of the five shapes is answered 4.04 and
\* reaches no resource: no ThingRuntime call, no timer, no pending promise.
C14_OtherShapesNotFound ==
    \A r \in Requests :
        IsReq(r) /\ req[r].method = "GET" /\ ~FiveShapes(req[r].segments) =>
            OnlyResponse(r, "4.04") /\ calls[r] = << >>

\* the method does not apply to the resource the request addresses
OnAction(r) == OnResource(r, ACTION_DIR, ActionNames)
OnListing(r) == IsReq(r) /\ req[r].segments = <<"", "">>
OnThingRoot(r) == IsReq(r) /\ req[r].slugKnown /\ Len(req[r].segments) = 2
WrongMethod(r) ==
    \/ (OnListing(r) \/ OnThingRoot(r) \/ OnEvent(r)) /\ req[r].method # "GET"
    \/ OnProperty(r) /\ req[r].method \notin {"GET", "PUT"}
    \/ OnAction(r) /\ req[r].method # "POST"

\* C15 as stated: every request with a method that does not apply is
\* answered 4.05 and calls no ThingRuntime capability.
C15_AlwaysMethodNotAllowed ==
    \A r \in Requests : WrongMethod(r) => OnlyResponse(r, "4.05") /\ calls[r] = << >>

\* C15: a request with a method that does not apply calls no ThingRuntime
\* capability and is answered 4.05, unless it is a PUT or POST that names an
\* unsupported Content-Format, which the admission check answers 4.15 first.
C15_MethodNotAllowedOnceAdmitted ==
    \A r \in Requests :
        WrongMethod(r) =>
            /\ calls[r] = << >>
            /\ pending[r] = "none" /\ ~timer[r]
            /\ IF req[r].method \in {"PUT", "POST"} /\ Unsupported(req[r].contentFormat)
               THEN OnlyResponse(r, "4.15")
               ELSE OnlyResponse(r, "4.05")

\* a GET on an action was answered 4.05
C15_Witness ==
    /\ OnAction("A") /\ req["A"].method = "GET" /\ code["A"] = "4.05"
    /\ calls["A"] = << >>

\* C16: a GET on an existing event with Observe > 0 is answered 5.01, one
\* without Observe 4.00; subscribeEvent is not called, the request is in no
\* listener set, and its stream has no finish handler besides the logger
\* every request gets.
C16_EventGetRefused ==
    \A r \in Requests :
        OnEvent(r) /\ req[r].method = "GET" /\ req[r].observe # {0} =>
            /\ IF \E o \in req[r].observe : o > 0
               THEN OnlyResponse(r, "5.01")
               ELSE OnlyResponse(r, "4.00")
            /\ ~Called(r, "subscribeEvent")
            /\ \A k \in DOMAIN listeners : r \notin listeners[k]
            /\ \A i \in DOMAIN onFinish[r] : onFinish[r][i] = "log"
            /\ pending[r] = "none" /\ ~timer[r]

\* an observe-cancel GET on an event was answered 5.01 and its stream
\* has finished
C16_Witness ==
    /\ OnEvent("A") /\ req["A"].method = "GET" /\ req["A"].observe = {1}
    /\ code["A"] = "5.01" /\ finished["A"] = 1


\* ---------------------------------------------------------- server errors
\* the step is the server emitting "error"
IsError == errors' = errors + 1

\* C17 as stated: an error before listening rejects start(); an error after
\* start() resolved is logged and changes no promise of any caller.
C17_LaterErrorStep ==
    /\ IsError /\ startPromise = "pending" => startPromise' = "rejected"
    /\ IsError /\ startPromise = "resolved" =>
        /\ logged' = logged + 1
        /\ listening' = listening
        /\ startPromise' = startPromise /\ stopPromise' = stopPromise
C17_LaterErrorOnlyLogged == [][C17_LaterErrorStep]_vars

\* C17 (step): an error before listening rejects start(); an error after
\* start() resolved is logged, leaves start()'s promise resolved and the
\* server listening, and rejects the promise of a stop() that is pending.
C17_ErrorStep ==
    /\ IsError /\ startPromise = "pending" =>
        startPromise' = "rejected" /\ ~listening' /\ logged' = logged
    /\ IsError /\ startPromise = "resolved" =>
        /\ logged' = logged + 1
        /\ listening' = listening
        /\ startPromise' = "resolved"
        /\ stopPromise' = IF stopPromise = "pending" THEN "rejected" ELSE stopPromise
\* C17 (state): a server whose start() rejected never listens, and requests
\* are handled only while the server listens.
C17_Started ==
    /\ startPromise = "rejected" => ~listening
    /\ listening => startPromise = "resolved"

\* C17: start() rejects on an error before listening; after start() has
\* resolved an error is logged, is not propagated to start()'s caller and
\* leaves the server handling requests; it rejects a pending stop().
C17_StartHandlesErrors == [][C17_ErrorStep]_vars /\ []C17_Started

\* after start() resolved an error was logged, and a request that arrived
\* after the error was answered
C17_Witness ==
    /\ startPromise = "resolved" /\ logged > 0 /\ listening
    /\ IsReq("A") /\ req["A"].errors > 0 /\ code["A"] = "2.05"

\* --------------------------------------- property observation, lifecycle
\* C18: once a finish signal was delivered on a property observation's
\* stream, whenever that happened, its polling timer is cancelled.
C18_FinishCancelsTimer ==
    \A r \in Requests : Observation(r) /\ finished[r] > 0 => ~timer[r]

\* C19: a failing tick of a property observation puts a 5.00 notification on
\* the stream and does not end it: while no finish signal was delivered the
\* stream is open and the timer runs.
C19_FailedTickKeepsStream ==
    \A r \in Requests :
        Observation(r) =>
            /\ \A i \in DOMAIN out[r] :
                   out[r][i].tick > 0 /\ out[r][i].code = "5.00" => out[r][i].op = "write"
            /\ finished[r] = 0 => ~ended[r] /\ timer[r]

\* C20: a property observation has at most one finish handler on its stream,
\* however many ticks have run.
C20_OneFinishHandler ==
    \A r \in Requests : Observation(r) => Registered(r, "obs") <= 1


\* ------------------------------------------------------ event observation
\* the frame is the error a callback with an unserializable payload puts
InvalidEvent(frame) == frame.op = "end" /\ frame.body = <<"text", "Invalid Event Data">>
\* the frame was put on the stream by the event listener
FromListener(frame) == frame.op = "write" \/ InvalidEvent(frame)

\* C21: on an event observation, after the error of a callback whose payload
\* could not be serialized, no callback puts anything more on the stream.
C21_ErrorTerminates ==
    \A r \in Requests :
        Subscription(r) =>
            \A i, j \in DOMAIN out[r] :
                i < j /\ InvalidEvent(out[r][i]) => ~FromListener(out[r][j])

\* the subscription never became Active: its subscribeEvent failed
NeverActive(r) ==
    Subscription(r) /\ (pending[r] = "subscribeFails" \/ settled[r] = "rejected")

\* C22: unsubscribeEvent is never called for an event observation whose
\* subscribeEvent failed.
C22_NoUnsubscribeUnlessActive ==
    \A r \in Requests : NeverActive(r) => ~Called(r, "unsubscribeEvent")

\* C23: an event observe-register request whose subscribeEvent failed is
\* answered 5.00 after the acknowledgement, has no listener registered and
\* gets no notification, whatever the runtime emits afterwards.
C23_FailedSubscribe ==
    \A r \in Requests :
        Subscription(r) /\ settled[r] = "rejected" =>
            /\ code[r] = "5.00" /\ ended[r]
            /\ Len(out[r]) = 2
            /\ out[r][1].op = "ack"
            /\ out[r][2].op = "end" /\ out[r][2].code = "5.00"
            /\ \A k \in DOMAIN listeners : r \notin listeners[k]

\* subscribeEvent failed for stream A while stream B, subscribed to the same
\* event, has been notified since
C23_Witness ==
    /\ Subscription("A") /\ settled["A"] = "rejected"
    /\ Accepted("B") /\ KeyOf("B") = KeyOf("A")
    /\ \E i \in Frames("B", "write") : i > 1
    /\ Frames("A", "write") = {}

\* the place of a step in the handler's run (0: not taken)
StepAt(r, step) ==
    IF \E i \in DOMAIN req[r].steps : req[r].steps[i] = step
    THEN CHOOSE i \in DOMAIN req[r].steps : req[r].steps[i] = step
    ELSE 0

\* C24: on an event observe-register request the empty acknowledgement is
\* the first frame on the stream and the only acknowledgement, it is sent
\* before subscribeEvent is called, and the stream's packet has the request's
\* token and confirmable flag again.
C24_AckFirst ==
    \A r \in Requests :
        Subscription(r) =>
            /\ Len(out[r]) >= 1
            /\ out[r][1] = [op |-> "ack", code |-> "0.00", body |-> << >>, tick |-> 0, late |-> FALSE]
            /\ \A i \in DOMAIN out[r] : i > 1 => out[r][i].op # "ack"
            /\ StepAt(r, "_send") = 1
            /\ StepAt(r, "_send") < StepAt(r, "restore")
            /\ StepAt(r, "restore") < StepAt(r, "subscribeEvent")
            /\ Called(r, "subscribeEvent")
            /\ req[r].packet = RequestPacket

\* a subscribed stream got its acknowledgement and then two notifications
C24_Witness ==
    /\ Accepted("A") /\ out["A"][1].op = "ack"
    /\ Cardinality(Frames("A", "write")) = 2


\* ------------------------------------------------------- one-shot requests
\* C25: a GET on an existing property that does not carry Observe = 0 (no
\* Observe option, or an observe-cancel value) starts no timer, reads the
\* property once and has at most one response.
C25_ObserveRegisterOnly ==
    \A r \in Requests :
        OnProperty(r) /\ req[r].method = "GET" /\ req[r].observe # {0} =>
            /\ ~timer[r] /\ ticks[r] = 0
            /\ calls[r] = << <<"readProperty", NameOf(r)>> >>
            /\ Len(out[r]) <= 1

\* the request passed the admission check
Admitted(r) ==
    IsReq(r) /\ ~(req[r].method \in {"PUT", "POST"} /\ Unsupported(req[r].contentFormat))
\* the thing slug is not in the registry
UnknownSlug(r) == IsReq(r) /\ req[r].segments[2] # "" /\ ~req[r].slugKnown
\* the path names a property, action or event the thing does not declare
UndeclaredName(r) ==
    LET segments == req[r].segments
        name == Seg(segments, 3)
    IN  /\ IsReq(r) /\ req[r].slugKnown /\ Len(segments) \in {3, 4}
        /\ \/ segments[3] = PROPERTY_DIR /\ name \notin PropertyNames
           \/ segments[3] = ACTION_DIR /\ name \notin ActionNames
           \/ segments[3] = EVENT_DIR /\ name \notin EventNames

\* C26: an admitted request whose slug is not registered, or whose property,
\* action or event name is not declared, has exactly one response, 4.04, and
\* calls no ThingRuntime capability.
C26_NotFound ==
    \A r \in Requests :
        Admitted(r) /\ (UnknownSlug(r) \/ UndeclaredName(r)) =>
            /\ OnlyResponse(r, "4.04")
            /\ calls[r] = << >>
            /\ pending[r] = "none" /\ ~timer[r]
            /\ \A k \in DOMAIN listeners : r \notin listeners[k]

\* a POST with a payload on an action the lamp does not declare was answered
\* 4.04 and its stream has finished
C26_Witness ==
    /\ UndeclaredName("A") /\ req["A"].method = "POST"
    /\ req["A"].segments[3] = ACTION_DIR
    /\ code["A"] = "4.04" /\ finished["A"] = 1


\* an admitted PUT on a property that is not read-only
WritableProperty(r) == OnProperty(r) /\ ~ReadOnlyOf[NameOf(r)]
OnWrite(r) == WritableProperty(r) /\ req[r].method = "PUT" /\ Admitted(r)
\* an admitted POST on an action
OnInvoke(r) == OnAction(r) /\ req[r].method = "POST" /\ Admitted(r)

\* C27: a PUT on a writable property with a payload the codec can decode
\* calls writeProperty once with the decoded value and, once the write has
\* succeeded, has one response: 2.04 with an empty body.
C27_WriteChanged ==
    \A r \in Requests :
        OnWrite(r) /\ ~contentToValueThrows(req[r].payload) =>
            /\ calls[r] = << <<"writeProperty", NameOf(r), contentToValue(req[r].payload)>> >>
            /\ settled[r] = "resolved" =>
                   OnlyResponse(r, "2.04") /\ out[r][1].body = << >>

\* C28: a POST on an action invokes it once with the decoded input; an
\* invocation that returned a defined output the codec can encode is
\* answered 2.05 with the serialized output, one that returned no output
\* 2.04 with an empty body.
C28_OutputMapping ==
    \A r \in Requests :
        OnInvoke(r) /\ ~contentToValueThrows(req[r].payload) =>
            /\ calls[r] = << <<"invokeAction", NameOf(r), contentToValue(req[r].payload)>> >>
            /\ settled[r] \in Outputs /\ ~valueToContentThrows(settled[r]) =>
                   IF settled[r] # Undefined
                   THEN /\ OnlyResponse(r, "2.05")
                        /\ out[r][1].body = valueToContent(settled[r], getActionContentType).body
                   ELSE OnlyResponse(r, "2.04") /\ out[r][1].body = << >>

\* C29: a PUT on a writable property or a POST on an action whose payload
\* the codec cannot decode has exactly one response, 4.00, and neither
\* writeProperty nor invokeAction is called.
C29_BadPayload ==
    \A r \in Requests :
        (OnWrite(r) \/ OnInvoke(r)) /\ contentToValueThrows(req[r].payload) =>
            /\ OnlyResponse(r, "4.00")
            /\ calls[r] = << >>
            /\ pending[r] = "none" /\ settled[r] = "none"

\* a PUT with an undecodable payload on the writable property was answered
\* 4.00 and its stream has finished
C29_Witness ==
    /\ OnWrite("A") /\ req["A"].payload = "buf:garbage"
    /\ code["A"] = "4.00" /\ finished["A"] = 1


\* a one-shot request that reached its capability call
OneShot(r) ==
    \/ OnProperty(r) /\ req[r].method = "GET" /\ req[r].observe = {}
    \/ (OnWrite(r) \/ OnInvoke(r)) /\ ~contentToValueThrows(req[r].payload)
\* how a failed capability call, or a result the codec cannot encode, settles
Failures == {"rejected", "unserializable"}
\* everything the server holds for the slot
SlotState(r) ==
    <<req[r], code[r], out[r], ended[r], onFinish[r], finished[r], pending[r], timer[r],
      ticks[r], inflight[r], calls[r], lookups[r], settled[r]>>

\* C30 (state): a one-shot request whose capability call failed, or whose
\* result could not be serialized, has exactly one response, 5.00.
C30_OneInternalError ==
    \A r \in Requests :
        OneShot(r) /\ settled[r] \in Failures => OnlyResponse(r, "5.00")
\* C30 (step): the step in which a one-shot request fails leaves every other
\* slot, every listener and the registry as they were.
C30_FailureStep ==
    \A r \in Requests :
        OneShot(r) /\ settled[r] = "none" /\ settled'[r] \in Failures =>
            /\ \A s \in Requests \ {r} : SlotState(s)' = SlotState(s)
            /\ listeners' = listeners
            /\ things' = things /\ listening' = listening

\* C30: a failing one-shot request gets exactly one response, 5.00, and its
\* failure changes nothing of any other request, timer or listener.
C30_FailureIsolated == [][C30_FailureStep]_vars /\ []C30_OneInternalError

\* the one-shot request on A failed while B's property observation has its
\* timer and has been notified
C30_Witness ==
    /\ OneShot("A") /\ settled["A"] = "rejected" /\ code["A"] = "5.00"
    /\ Observation("B") /\ timer["B"] /\ Frames("B", "write") # {}


\* ------------------------------------------------- expose, not listening
\* C31 (step): an expose call on a server that is not listening resolves and
\* leaves the registry and every thing's forms as they were; on a listening
\* server the call registers the thing and attaches forms for its slug.
C31_ExposeStep ==
    /\ lastOp'.op = "expose" /\ getPort = -1 /\ ~listening' =>
        things' = things /\ forms' = forms /\ lastOp'.value = "void"
    /\ IsCall("expose") /\ getPort # -1 =>
        \E name \in DOMAIN things' :
            things'[name] = lastOp'.arg /\ name \in forms'[lastOp'.arg]

\* C31 (state): a server that has never listened has an empty registry and
\* has attached no form.
C31_NothingBeforeListening ==
    startPromise # "resolved" => things = << >> /\ \A thing \in ThingObjs : forms[thing] = {}

\* C31 (request): a request lists registered slugs only, and a path whose
\* slug is not registered is answered 4.04 without a ThingRuntime call.
C31_RequestStep ==
    \A r \in Requests :
        ~IsReq(r) /\ IsReq(r)' =>
            /\ Listed(r)' \subseteq DOMAIN things
            /\ req'[r].segments[2] \notin DOMAIN things \cup {""} =>
                   code'[r] = "4.04" /\ calls'[r] = << >>

\* C31: expose on a server that is not listening resolves and changes
\* nothing, so once the server listens the thing is in no listing and its
\* paths are answered 4.04 until it is exposed again.
C31_ExposeNotListening ==
    [][C31_ExposeStep /\ C31_RequestStep]_vars /\ []C31_NothingBeforeListening

\* the lamp was exposed before the server listened only: the listening
\* server has no entry and no form for it and answered its path with 4.04
C31_Witness ==
    /\ listening /\ lastOp = [op |-> "expose", arg |-> "thingA", value |-> "void"]
    /\ things = << >> /\ forms["thingA"] = {}
    /\ IsReq("A") /\ req["A"].lastOp = lastOp
    /\ req["A"].segments = <<"", "lamp">> /\ code["A"] = "4.04"

====
